---- MODULE Spec2Model ----
(***************************************************************************)
(* Variational Gibbs-state preparation and QBM training of                 *)
(* QML/Session3.ipynb: the explicit-Euler parameter propagation            *)
(* get_gibbs_state_params, the cross-entropy loss, and the COBYLA run that *)
(* minimises it.                                                           *)
(*                                                                         *)
(* Numbers.  A float is modelled as an exact extended rational <<n, d>>    *)
(* with d >= 0 in lowest terms: d > 0 is the finite value n/d, <<1, 0>> is *)
(* +inf, <<-1, 0>> is -inf and <<0, 0>> is NaN, with IEEE-754 rules for    *)
(* the special values.  Rounding of finite values is not modelled.         *)
(***************************************************************************)
EXTENDS Integers, Sequences, FiniteSets

\* ------------------------------------------------------------------ bounds
\* Largest number of time-discretization steps a cell or a call chooses.
MaxSteps == 2
\* Largest temperature k_BT a cell chooses.
MaxKBT == 2

\* ------------------------------------------------------- program constants
NumQubits == 4
depth == 1
maxiter == 50
NumCoeffs == 3

\* --------------------------------------------------- extended rationals
NaN == <<0, 0>>
PosInf == <<1, 0>>
NegInf == <<-1, 0>>
Zero == <<0, 1>>
One == <<1, 1>>

Abs(n) == IF n < 0 THEN -n ELSE n
Sign(n) == IF n < 0 THEN -1 ELSE IF n > 0 THEN 1 ELSE 0

RECURSIVE GCD(_, _)
GCD(a, b) == IF b = 0 THEN a ELSE GCD(b, a % b)

\* n/d in lowest terms with a positive denominator; d = 0 gives inf or NaN.
Norm(n, d) ==
    IF d = 0 THEN <<Sign(n), 0>>
    ELSE LET s == IF d < 0 THEN -1 ELSE 1
             g == GCD(Abs(n), Abs(d))
         IN  <<(s * n) \div g, (s * d) \div g>>

Rat(n, d) == Norm(n, d)
IsNaN(a) == a = NaN
IsInf(a) == a[2] = 0 /\ a[1] # 0
IsFinite(a) == a[2] > 0

RNeg(a) == <<-a[1], a[2]>>

RAdd(a, b) ==
    IF IsNaN(a) \/ IsNaN(b) THEN NaN
    ELSE IF IsInf(a) THEN (IF IsInf(b) /\ b # a THEN NaN ELSE a)
    ELSE IF IsInf(b) THEN b
    ELSE LET g == GCD(a[2], b[2])
         IN  Norm(a[1] * (b[2] \div g) + b[1] * (a[2] \div g), (a[2] \div g) * b[2])

RSub(a, b) == RAdd(a, RNeg(b))

RMul(a, b) ==
    IF IsNaN(a) \/ IsNaN(b) THEN NaN
    ELSE IF IsInf(a) \/ IsInf(b)
         THEN (IF a[1] = 0 \/ b[1] = 0 THEN NaN ELSE <<Sign(a[1]) * Sign(b[1]), 0>>)
    ELSE LET g == GCD(Abs(a[1]), b[2])
             k == GCD(Abs(b[1]), a[2])
         IN  Norm((a[1] \div g) * (b[1] \div k), (a[2] \div k) * (b[2] \div g))

\* A finite value divided by a positive integer.
RDivInt(a, k) == IF IsFinite(a) THEN Norm(a[1], a[2] * k) ELSE a

\* a < b; every comparison with NaN is false.
RLess(a, b) ==
    IF IsNaN(a) \/ IsNaN(b) THEN FALSE
    ELSE IF a = b THEN FALSE
    ELSE IF a = NegInf \/ b = PosInf THEN TRUE
    ELSE IF a = PosInf \/ b = NegInf THEN FALSE
    ELSE a[1] * b[2] < b[1] * a[2]

\* ------------------------------------------------------------- vectors
HasNaN(v) == \E i \in 1..Len(v) : ~IsFinite(v[i])
VecScale(c, v) == [i \in 1..Len(v) |-> RMul(c, v[i])]
VecSub(u, v) == [i \in 1..Len(u) |-> RSub(u[i], v[i])]

RECURSIVE SumSeq(_)
SumSeq(s) == IF s = <<>> THEN Zero ELSE RAdd(s[1], SumSeq(Tail(s)))

\* ------------------------------------------------- notebook definitions
\* np.pi/2, as the rational 11/7.
HalfPi == Rat(11, 7)

\* Number of ansatz parameters: EfficientSU2 on NumQubits qubits, reps = depth.
NumParams == 2 * NumQubits * (depth + 1)

\* param_values_init: zeros, with pi/2 at the 0-based indices
\* range(2 * num_qubits * depth, len - num_qubits - 2).
ParamValuesInit ==
    [i \in 1..NumParams |->
        IF (i - 1) >= 2 * NumQubits * depth /\ (i - 1) < NumParams - NumQubits - 2
        THEN HalfPi ELSE Zero]

ZeroParams == [i \in 1..NumParams |-> Zero]

\* t = 1/(2*k_BT)
Horizon(kbt) == Rat(1, 2 * kbt)

\* np.linspace(0, tt, n): n points from 0 to tt inclusive ([0] when n = 1).
Linspace(tt, n) ==
    [k \in 1..n |-> IF n = 1 THEN Zero ELSE RMul(Rat(k - 1, n - 1), tt)]

\* Hamiltonian coefficient vectors (a, b, c) used by the cells and the optimizer.
ZeroCoeffs == [j \in 1..NumCoeffs |-> Zero]
initial_point == <<Rat(-2, 1), Rat(1, 5), Rat(1, 2)>>
UnitCoeffs == <<One, Zero, Zero>>
CoeffPoints == {ZeroCoeffs, initial_point, UnitCoeffs}

\* p_target
NotebookTarget == <<Rat(1, 2), Zero, Zero, Rat(1, 2)>>

VARIABLES
    k_BT, t, num_time_steps, time_steps,   \* module globals set by the cells
    param_values_init, p_target,           \* module globals read by loss
    faultKind, simSeed,                    \* the external collaborators
    gpc, caller, op, param_arg, grid_arg,  \* frame of get_gibbs_state_params
    param_values, idx, trace, prevCall, gerr,
    opc, evals, H_coeffs, p_qbm, loss_fn,  \* loss and the optimizer run
    bestPoint, bestValue, result, runs, illCond,
    procs,                                 \* two loss evaluations in flight
    permLoss                               \* loss applied to a permuted pair

globals == <<k_BT, t, num_time_steps, time_steps, param_values_init, p_target>>
externals == <<faultKind, simSeed>>
frame == <<gpc, caller, op, param_arg, grid_arg, param_values, idx, trace, prevCall, gerr>>
train == <<opc, evals, H_coeffs, p_qbm, loss_fn, bestPoint, bestValue, result, runs, illCond>>
conc == <<procs, permLoss>>
vars == <<globals, externals, frame, train, conc>>

\* --------------------------------------------- Metric/Gradient Oracle
\* The natural-gradient solve is an external collaborator.  It is modelled
\* as a deterministic function of (Hamiltonian coefficients, parameters),
\* linear in the coefficients: component i is sum_j h[j] * (p[i] + j).
\* The regularized solve is ill-conditioned where the first parameter is
\* negative (and the right-hand side is not zero); there the oracle returns
\* NaN or raises, according to faultKind.
FaultBelow == Zero

AllZero(h) == \A j \in 1..Len(h) : h[j] = Zero

IllConditioned(h, pd) == ~AllZero(h) /\ RLess(pd[1], FaultBelow)

NatGradOutcome(h, pd, kind) ==
    IF HasNaN(pd) THEN (IF kind = "raise" THEN "raise" ELSE "nan")
    ELSE IF kind # "none" /\ IllConditioned(h, pd) THEN kind
    ELSE "ok"

NatGradValue(h, pd) ==
    [i \in 1..Len(pd) |->
        SumSeq([j \in 1..Len(h) |-> RMul(h[j], RAdd(pd[i], Rat(j, 1)))])]

NaNVector(n) == [i \in 1..n |-> NaN]

\* nat_grad.assign_parameters(param_dict).eval(), when it does not raise.
NatGradEval(h, pd, kind) ==
    IF NatGradOutcome(h, pd, kind) = "nan" THEN NaNVector(Len(pd))
    ELSE NatGradValue(h, pd)

\* --------------------------------------------- get_gibbs_state_params
\* dict(zip(ansatz.ordered_parameters, param_values)): zip pairs up to the
\* shorter of the two.
ParamDict(pv) ==
    [i \in 1..(IF Len(pv) < NumParams THEN Len(pv) ELSE NumParams) |-> pv[i]]

\* t/num_time_steps, read from the module globals.
StepSize(tt, nsteps) == RDivInt(tt, nsteps)

\* np.subtract(param_values, t/num_time_steps * np.real(nat_grad_result))
UpdateMisplaced(pv, s, d) ==
    [i \in 1..Len(pv) |-> RMul(RSub(pv[i], s), d[i])]
Update(pv, s, d) == VecSub(pv, VecScale(s, d))

\* np.subtract of arrays of shapes (m,) and (n,) raises ValueError unless the
\* shapes broadcast.
Broadcastable(m, n) == m = n \/ m = 1 \/ n = 1

\* `for step in time_steps` is exhausted once every element was visited.
LoopExhaustedEarly(i, grid) == i >= Len(grid)
LoopExhausted(i, grid) == i > Len(grid)

NoCall == <<>>

Idle == gpc \in {"idle", "returned", "raised"}

\* Start of a call get_gibbs_state_params(op, ansatz, param_values, time_steps).
EnterCall(who, h, pv, grid) ==
    /\ gpc' = "loop"
    /\ caller' = who
    /\ op' = h
    /\ param_arg' = pv
    /\ grid_arg' = grid
    /\ param_values' = pv
    /\ idx' = 1
    /\ trace' = <<>>
    /\ gerr' = "none"
    /\ prevCall' = IF who = "cell" /\ gpc = "returned" /\ caller = "cell"
                      /\ op = h /\ param_arg = pv /\ grid_arg = grid
                   THEN <<param_values>> ELSE NoCall

\* One iteration of the loop body.
IntegratorStep ==
    /\ gpc = "loop"
    /\ ~LoopExhausted(idx, grid_arg)
    /\ LET pd == ParamDict(param_values)
           s == StepSize(t, num_time_steps)
           d == NatGradEval(op, pd, faultKind)
       IN  IF NatGradOutcome(op, pd, faultKind) = "raise"
           THEN /\ gpc' = "raised"
                /\ gerr' = "OracleError"
                /\ UNCHANGED <<param_values, idx, trace>>
           ELSE IF ~Broadcastable(Len(param_values), Len(d))
           THEN /\ gpc' = "raised"
                /\ gerr' = "ValueError"
                /\ UNCHANGED <<param_values, idx, trace>>
           ELSE /\ param_values' = Update(param_values, s, d)
                /\ idx' = idx + 1
                /\ trace' = Append(trace, [at |-> pd, step |-> s,
                                           out |-> Update(param_values, s, d)])
                /\ gpc' = "loop"
                /\ UNCHANGED gerr
    /\ illCond' = (illCond \/ (caller = "loss"
                     /\ NatGradOutcome(op, ParamDict(param_values), faultKind) # "ok"))
    /\ UNCHANGED <<caller, op, param_arg, grid_arg, prevCall>>
    /\ UNCHANGED <<globals, externals>>
    /\ UNCHANGED conc
    /\ UNCHANGED <<opc, evals, H_coeffs, p_qbm, loss_fn, bestPoint, bestValue, result, runs>>

\* return param_values
IntegratorReturn ==
    /\ gpc = "loop"
    /\ LoopExhausted(idx, grid_arg)
    /\ gpc' = "returned"
    /\ UNCHANGED <<caller, op, param_arg, grid_arg, param_values, idx, trace, prevCall, gerr>>
    /\ UNCHANGED <<globals, externals, train>>
    /\ UNCHANGED conc

\* ------------------------------------------------------------ the cells
KBTs == 1..MaxKBT
StepCounts == 1..MaxSteps

\* k_BT = ...; t = 1/(2*k_BT)
SetTemperature(k) ==
    /\ Idle /\ opc = "idle"
    /\ k_BT' = k
    /\ t' = Horizon(k)
    /\ UNCHANGED <<num_time_steps, time_steps, param_values_init, p_target>>
    /\ UNCHANGED <<externals, frame, train>>
    /\ UNCHANGED conc

\* num_time_steps = ...; time_steps = np.linspace(0, t, num_time_steps)
BuildGrid(n) ==
    /\ Idle /\ opc = "idle"
    /\ num_time_steps' = n
    /\ time_steps' = Linspace(t, n)
    /\ UNCHANGED <<k_BT, t, param_values_init, p_target>>
    /\ UNCHANGED <<externals, frame, train>>
    /\ UNCHANGED conc

\* The grids a call is given: the global one, or one built for the call.
CallGrids == {time_steps} \cup {Linspace(t, n) : n \in StepCounts}
\* A vector with one entry more than the ansatz has parameters.
LongParams == [i \in 1..(NumParams + 1) |-> Zero]
CallParams == {param_values_init, ZeroParams, LongParams}

\* param_values = get_gibbs_state_params(op, ansatz, param_values_init, time_steps)
CellCall(h, pv, grid) ==
    /\ Idle /\ opc = "idle"
    /\ EnterCall("cell", h, pv, grid)
    /\ UNCHANGED <<globals, externals, train>>
    /\ UNCHANGED conc

\* ------------------------------------------------ Circuit/State Simulator
\* np.diag(partial_trace(statevector, [0, 1]).data) is computed by an
\* external collaborator.  It is modelled as a deterministic function of the
\* parameter vector into a fixed list of distributions over the four basis
\* states (entries in quarters, zeros included); simSeed selects which
\* function.  NaN parameters give a NaN statevector.
TrainedDists ==
    << <<Rat(1, 4), Rat(1, 4), Rat(1, 4), Rat(1, 4)>>,
       <<Rat(1, 2), Zero, Zero, Rat(1, 2)>>,
       <<Zero, Rat(1, 4), Rat(1, 4), Rat(1, 2)>>,
       <<Rat(1, 4), Rat(1, 2), Zero, Rat(1, 4)>> >>

RECURSIVE Digest(_)
Digest(pv) == IF pv = <<>> THEN 0 ELSE Abs(pv[1][1]) + pv[1][2] + Digest(Tail(pv))

Simulator(pv, seed) ==
    IF HasNaN(pv) THEN NaNVector(4)
    ELSE TrainedDists[((Digest(pv) + seed) % Len(TrainedDists)) + 1]

\* ------------------------------------------------------------------ loss
\* np.log on probabilities in eighths, to three decimals;
\* np.log(0) is -inf and np.log(nan) is nan.
Log(x) ==
    CASE x = NaN -> NaN
      [] x = Zero -> NegInf
      [] x = Rat(1, 8) -> Rat(-2079, 1000)
      [] x = Rat(3, 8) -> Rat(-981, 1000)
      [] x = Rat(5, 8) -> Rat(-470, 1000)
      [] x = Rat(7, 8) -> Rat(-134, 1000)
      [] x = Rat(1, 4) -> Rat(-1386, 1000)
      [] x = Rat(1, 2) -> Rat(-693, 1000)
      [] x = Rat(3, 4) -> Rat(-288, 1000)
      [] x = One -> Zero

\* np.real(-np.sum(np.multiply(p_target, np.log(p_qbm))))
LogTermsReversed(target, trained) ==
    [i \in 1..Len(target) |->
        RMul(target[i], Log(trained[Len(trained) + 1 - i]))]
LogTerms(target, trained) ==
    [i \in 1..Len(target) |-> RMul(target[i], Log(trained[i]))]
LossValue(target, trained) == RNeg(SumSeq(LogTerms(target, trained)))

Targets == {NotebookTarget, <<Rat(1, 4), Rat(1, 4), Rat(1, 4), Rat(1, 4)>>}
Seeds == {0, 1}

\* --------------------------------------------------- optimizer.optimize
\* COBYLA(maxiter = 50).optimize(3, loss, initial_point): an external
\* derivative-free search.  It evaluates loss at initial_point first, then at
\* trial points of its choice, at most maxiter times in all; it may stop
\* earlier (its tolerance); it returns the best point evaluated.  An
\* exception raised by loss propagates out of optimize.
OptimizeStart ==
    /\ opc = "idle" /\ Idle
    /\ opc' = "running"
    /\ evals' = 0
    /\ runs' = 0
    /\ illCond' = FALSE
    /\ bestPoint' = initial_point
    /\ bestValue' = NaN
    /\ UNCHANGED <<H_coeffs, p_qbm, loss_fn, result>>
    /\ UNCHANGED <<globals, externals, frame>>
    /\ UNCHANGED conc

\* loss(H_coeffs), up to the call of get_gibbs_state_params.
LossCall(x) ==
    /\ opc = "running" /\ Idle /\ gpc # "raised"
    /\ evals = runs
    /\ evals < maxiter
    /\ evals = 0 => x = initial_point
    /\ H_coeffs' = x
    /\ runs' = runs + 1
    /\ illCond' = FALSE
    /\ EnterCall("loss", x, param_values_init, time_steps)
    /\ UNCHANGED <<opc, evals, p_qbm, loss_fn, bestPoint, bestValue, result>>
    /\ UNCHANGED <<globals, externals>>
    /\ UNCHANGED conc

\* loss(H_coeffs), from the return of get_gibbs_state_params to its own
\* return, and the optimizer's bookkeeping of the value.
LossReturn ==
    /\ opc = "running" /\ caller = "loss" /\ gpc = "returned"
    /\ evals < runs
    /\ LET q == Simulator(param_values, simSeed)
           v == LossValue(p_target, q)
       IN  /\ p_qbm' = q
           /\ loss_fn' = v
           /\ IF evals = 0 \/ RLess(v, bestValue)
              THEN bestPoint' = H_coeffs /\ bestValue' = v
              ELSE UNCHANGED <<bestPoint, bestValue>>
    /\ evals' = evals + 1
    /\ UNCHANGED <<opc, H_coeffs, result, runs, illCond>>
    /\ UNCHANGED <<globals, externals, frame>>
    /\ UNCHANGED conc

\* An exception raised in get_gibbs_state_params: loss has no handler and
\* neither has optimize, so the run ends with the exception.
LossRaise ==
    /\ opc = "running" /\ caller = "loss" /\ gpc = "raised"
    /\ opc' = "crashed"
    /\ UNCHANGED <<evals, H_coeffs, p_qbm, loss_fn, bestPoint, bestValue, result, runs, illCond>>
    /\ UNCHANGED <<globals, externals, frame>>
    /\ UNCHANGED conc

\* optimize returns: the budget is spent, or the search stopped by itself.
OptimizeReturn ==
    /\ opc = "running" /\ gpc = "returned" /\ caller = "loss"
    /\ evals = runs /\ evals >= 1
    /\ opc' = "done"
    /\ result' = <<bestPoint, bestValue>>
    /\ UNCHANGED <<evals, H_coeffs, p_qbm, loss_fn, bestPoint, bestValue, runs, illCond>>
    /\ UNCHANGED <<globals, externals, frame>>
    /\ UNCHANGED conc

\* The loss evaluations that may be in flight side by side, none started.
Evaluations == {1, 2}

IdleEvaluation ==
    [pc |-> "idle", H |-> ZeroCoeffs, pv |-> ZeroParams, i |-> 1,
     val |-> Zero, mixed |-> FALSE, seen |-> <<>>]
NoEvaluations == [e \in Evaluations |-> IdleEvaluation]

\* ------------------------------------------------------- specifications
FaultKinds == {"none", "nan", "raise"}

Init ==
    /\ k_BT \in KBTs
    /\ t = Horizon(k_BT)
    /\ num_time_steps \in StepCounts
    /\ time_steps = Linspace(t, num_time_steps)
    /\ param_values_init = ParamValuesInit
    /\ p_target = NotebookTarget
    /\ faultKind \in FaultKinds
    /\ simSeed = 0
    /\ gpc = "idle" /\ caller = "cell"
    /\ op = ZeroCoeffs /\ param_arg = ZeroParams /\ grid_arg = <<>>
    /\ param_values = ZeroParams /\ idx = 1 /\ trace = <<>> /\ prevCall = NoCall
    /\ gerr = "none"
    /\ opc = "idle" /\ evals = 0 /\ runs = 0 /\ illCond = FALSE
    /\ H_coeffs = ZeroCoeffs /\ p_qbm = TrainedDists[1] /\ loss_fn = Zero
    /\ bestPoint = initial_point /\ bestValue = NaN /\ result = <<>>
    /\ procs = NoEvaluations
    /\ permLoss = <<>>

\* The Gibbs-state cells: the parameter cells and calls of the propagation.
Next ==
    \/ \E k \in KBTs : SetTemperature(k)
    \/ \E n \in StepCounts : BuildGrid(n)
    \/ \E h \in CoeffPoints, pv \in CallParams, grid \in CallGrids : CellCall(h, pv, grid)
    \/ IntegratorStep
    \/ IntegratorReturn

Spec == Init /\ [][Next]_vars

\* The training run at the notebook's temperature: any grid size, target
\* and simulator, one optimizer run.
TrainInit ==
    /\ k_BT = 1
    /\ t = Horizon(k_BT)
    /\ num_time_steps \in StepCounts
    /\ time_steps = Linspace(t, num_time_steps)
    /\ param_values_init = ParamValuesInit
    /\ p_target \in Targets
    /\ faultKind \in FaultKinds
    /\ simSeed \in Seeds
    /\ gpc = "idle" /\ caller = "cell"
    /\ op = ZeroCoeffs /\ param_arg = ZeroParams /\ grid_arg = <<>>
    /\ param_values = ZeroParams /\ idx = 1 /\ trace = <<>> /\ prevCall = NoCall
    /\ gerr = "none"
    /\ opc = "idle" /\ evals = 0 /\ runs = 0 /\ illCond = FALSE
    /\ H_coeffs = ZeroCoeffs /\ p_qbm = TrainedDists[1] /\ loss_fn = Zero
    /\ bestPoint = initial_point /\ bestValue = NaN /\ result = <<>>
    /\ procs = NoEvaluations
    /\ permLoss = <<>>

TrainNext ==
    \/ OptimizeStart
    \/ \E x \in CoeffPoints : LossCall(x)
    \/ IntegratorStep
    \/ IntegratorReturn
    \/ LossReturn
    \/ LossRaise
    \/ OptimizeReturn

TrainSpec == TrainInit /\ [][TrainNext]_vars

\* ------------------------------------------- loss evaluations side by side
\* Two evaluations of loss, each with the locals of its own loss frame and
\* its own get_gibbs_state_params frame, interleaved between loop
\* iterations; they share the module globals.
\* The array passed as param_values after an update of the local:
\* list(np.subtract(...)) builds a new list and rebinds the local name, the
\* array passed in is not written.
ArgAfterUpdateInPlace(arg, new) == new
ArgAfterUpdate(arg, new) == arg

\* loss(H_coeffs), up to the first loop iteration of get_gibbs_state_params.
ConcLossCall(e, x) ==
    /\ procs[e].pc = "idle"
    /\ procs' = [procs EXCEPT ![e] =
                    [pc |-> "loop", H |-> x, pv |-> param_values_init, i |-> 1,
                     val |-> Zero, mixed |-> FALSE,
                     seen |-> <<param_values_init, time_steps, p_target>>]]
    /\ UNCHANGED <<globals, externals, frame, train, permLoss>>

\* One loop iteration of evaluation e.
ConcStep(e) ==
    /\ procs[e].pc = "loop"
    /\ ~LoopExhausted(procs[e].i, time_steps)
    /\ LET pd == ParamDict(procs[e].pv)
           s == StepSize(t, num_time_steps)
           d == NatGradEval(procs[e].H, pd, faultKind)
           new == Update(procs[e].pv, s, d)
           overlap == \E o \in Evaluations \ {e} :
                         procs[o].pc = "loop" /\ procs[o].i > 1
       IN  IF NatGradOutcome(procs[e].H, pd, faultKind) = "raise"
           THEN /\ procs' = [procs EXCEPT ![e].pc = "raised"]
                /\ UNCHANGED param_values_init
           ELSE /\ procs' = [procs EXCEPT ![e].pv = new, ![e].i = @ + 1,
                                          ![e].mixed = @ \/ overlap]
                /\ param_values_init' = ArgAfterUpdate(param_values_init, new)
    /\ UNCHANGED <<k_BT, t, num_time_steps, time_steps, p_target>>
    /\ UNCHANGED <<externals, frame, train, permLoss>>

\* The rest of loss: the trained distribution and the value returned.
ConcLossReturn(e) ==
    /\ procs[e].pc = "loop"
    /\ LoopExhausted(procs[e].i, time_steps)
    /\ procs' = [procs EXCEPT ![e].pc = "done",
                    ![e].val = LossValue(p_target, Simulator(procs[e].pv, simSeed))]
    /\ UNCHANGED <<globals, externals, frame, train, permLoss>>

ConcNext ==
    \/ \E e \in Evaluations, x \in CoeffPoints : ConcLossCall(e, x)
    \/ \E e \in Evaluations : ConcStep(e)
    \/ \E e \in Evaluations : ConcLossReturn(e)

ConcSpec == TrainInit /\ [][ConcNext]_vars

\* ------------------------------------------------- the loss formula alone
\* The cross-entropy of lines 474-476 applied to any target and any trained
\* distribution over the four basis states (target entries in quarters,
\* trained entries in eighths), and to the same pair with both vectors
\* reordered by one permutation of the indices.
TargetValues == {Zero, Rat(1, 4), Rat(1, 2), Rat(3, 4), One}
TrainedValues ==
    TargetValues \cup {Rat(1, 8), Rat(3, 8), Rat(5, 8), Rat(7, 8)}
TargetDists ==
    {d \in [1..Len(NotebookTarget) -> TargetValues] : SumSeq(d) = One}
Dists ==
    {d \in [1..Len(NotebookTarget) -> TrainedValues] : SumSeq(d) = One}
Perms ==
    {f \in [1..Len(NotebookTarget) -> 1..Len(NotebookTarget)] :
        \A i, j \in DOMAIN f : f[i] = f[j] => i = j}
Permute(v, perm) == [i \in 1..Len(v) |-> v[perm[i]]]

LossInit ==
    /\ k_BT = 1
    /\ t = Horizon(k_BT)
    /\ num_time_steps = 1
    /\ time_steps = Linspace(t, num_time_steps)
    /\ param_values_init = ParamValuesInit
    /\ p_target \in TargetDists
    /\ faultKind = "none"
    /\ simSeed = 0
    /\ gpc = "idle" /\ caller = "cell"
    /\ op = ZeroCoeffs /\ param_arg = ZeroParams /\ grid_arg = <<>>
    /\ param_values = ZeroParams /\ idx = 1 /\ trace = <<>> /\ prevCall = NoCall
    /\ gerr = "none"
    /\ opc = "idle" /\ evals = 0 /\ runs = 0 /\ illCond = FALSE
    /\ H_coeffs = ZeroCoeffs /\ p_qbm \in Dists /\ loss_fn = Zero
    /\ bestPoint = initial_point /\ bestValue = NaN /\ result = <<>>
    /\ procs = NoEvaluations
    /\ permLoss = <<>>

\* loss_fn for (p_target, p_qbm), and for the pair reordered by perm.
ApplyLoss(perm) ==
    /\ permLoss = <<>>
    /\ loss_fn' = LossValue(p_target, p_qbm)
    /\ permLoss' = <<perm, LossValue(Permute(p_target, perm), Permute(p_qbm, perm))>>
    /\ UNCHANGED <<globals, externals, frame, procs>>
    /\ UNCHANGED <<opc, evals, H_coeffs, p_qbm, bestPoint, bestValue, result, runs, illCond>>

LossNext == \E perm \in Perms : ApplyLoss(perm)

LossSpec == LossInit /\ [][LossNext]_vars

\* ------------------------------------------------------------- properties

\* C1: a call with a time grid of length T applies exactly T updates, one
\* after another, and then returns; the direction of update k is evaluated
\* at the vector produced by update k-1 (the argument vector for k = 1), and
\* the vector returned is the one produced by the last update.
C1_SequentialUpdates ==
    /\ \A k \in 1..Len(trace) :
          trace[k].at = ParamDict(IF k = 1 THEN param_arg ELSE trace[k - 1].out)
    /\ gpc = "returned" =>
          /\ Len(trace) = Len(grid_arg)
          /\ param_values = trace[Len(trace)].out

\* C1 witness: a returned call on a grid of length 2 whose second direction
\* was evaluated at the vector the first update produced, not at the argument.
C1_Witness ==
    /\ gpc = "returned" /\ caller = "cell"
    /\ Len(grid_arg) = 2 /\ Len(trace) = 2
    /\ trace[1].out # param_arg
    /\ trace[2].at = trace[1].out

\* C2 (as claimed): every update uses the step size t / (number of elements
\* of the time grid passed to the call).
C2_StepFromGridCardinality ==
    \A k \in 1..Len(trace) : trace[k].step = RDivInt(t, Len(grid_arg))

\* C3 (as claimed): a call with the same arguments as the call before it
\* returns the same vector, whatever happened to the module globals between.
C3_Reproducible ==
    (gpc = "returned" /\ caller = "cell" /\ prevCall # NoCall)
        => param_values = prevCall[1]

\* C4: with all Hamiltonian coefficients zero the call returns a vector
\* equal to its argument, for every grid and every argument vector.
C4_ZeroHamiltonianFixesParams ==
    (gpc = "returned" /\ AllZero(op)) => param_values = param_arg

\* C4 witness: a returned call with a zero Hamiltonian that went through two
\* updates from the notebook's initial vector.
C4_Witness ==
    /\ gpc = "returned" /\ AllZero(op)
    /\ Len(trace) = 2
    /\ param_arg = ParamValuesInit
    /\ trace[1].step # Zero

\* C5 (as claimed): an ill-conditioned solve ends the call with an error at
\* that step; the call never goes on with, nor returns, a vector holding NaN.
C5_NoNaNPropagation ==
    gpc \in {"loop", "returned"} => ~HasNaN(param_values)

\* C6 (as claimed): an ill-conditioned Integrator step during a loss
\* evaluation does not crash the run, and that evaluation hands the
\* optimizer a finite sentinel value.
C6_InstabilityBecomesSentinel ==
    illCond =>
        /\ opc # "crashed"
        /\ (gpc = "returned" /\ evals = runs) => IsFinite(loss_fn)

\* The cross-entropy summed over the indices with a nonzero target only.
SkipTerms(target, trained) ==
    [i \in 1..Len(target) |->
        IF target[i] = Zero THEN Zero ELSE RMul(target[i], Log(trained[i]))]
SkipLoss(target, trained) == RNeg(SumSeq(SkipTerms(target, trained)))

\* C7 (as claimed): the value loss returns is the sum over the indices with
\* a nonzero target only; a zero-target index contributes nothing.
C7_LossSkipsZeroTargets ==
    evals >= 1 => loss_fn = SkipLoss(p_target, p_qbm)

\* C8 (as claimed): when the trained probability is positive wherever the
\* target is positive, the value loss returns is finite.
C8_LossFinite ==
    (evals >= 1 /\ \A i \in 1..Len(p_target) :
                      RLess(Zero, p_target[i]) => RLess(Zero, p_qbm[i]))
        => IsFinite(loss_fn)

\* C9 (as claimed): when the trained probability is <= 0 at an index with a
\* nonzero target, loss still returns a finite value the optimizer can
\* compare, and the run is not aborted.
C9_IllDefinedLossPolicy ==
    (evals >= 1 /\ \E i \in 1..Len(p_target) :
                      /\ p_target[i] # Zero
                      /\ (p_qbm[i] = Zero \/ RLess(p_qbm[i], Zero)))
        => (IsFinite(loss_fn) /\ opc # "crashed")

\* C10 (as claimed): the run makes at most maxiter loss evaluations, each
\* running the Integrator once, and always ends by returning the best point
\* found.
C10_BudgetAndBest ==
    /\ evals <= maxiter /\ runs <= maxiter
    /\ opc \in {"done", "crashed"} =>
          /\ opc = "done"
          /\ runs = evals
          /\ result = <<bestPoint, bestValue>>

\* The budget part of C10 alone.
BudgetRespected ==
    /\ evals <= maxiter /\ runs <= maxiter /\ runs \in {evals, evals + 1}
    /\ opc = "done" => (runs = evals /\ result = <<bestPoint, bestValue>>)

\* The outcome of loss(x) run alone from the notebook's globals: the
\* propagation from iteration i on, <<"raised">> or <<"returned", vector>>.
RECURSIVE PropagateAlone(_, _, _)
PropagateAlone(h, pv, i) ==
    IF LoopExhausted(i, time_steps) THEN <<"returned", pv>>
    ELSE LET pd == ParamDict(pv)
             new == Update(pv, StepSize(t, num_time_steps),
                           NatGradEval(h, pd, faultKind))
         IN  IF NatGradOutcome(h, pd, faultKind) = "raise" THEN <<"raised">>
             ELSE IF new = new   \* (evaluates the vector once, here)
                  THEN PropagateAlone(h, new, i + 1)
                  ELSE <<"raised">>

LossAlone(x) ==
    LET r == PropagateAlone(x, ParamValuesInit, 1)
    IN  IF r[1] = "raised" THEN <<"raised">>
        ELSE <<"done", LossValue(p_target, Simulator(r[2], simSeed))>>

\* C11: loss evaluations share no mutable state: while an evaluation runs
\* and after it ended, param_values_init, time_steps and p_target are as they
\* were when it started (param_values_init still the notebook's vector), and
\* in every interleaving of two evaluations each one ends as it does when
\* run alone (the same value, or the same exception).
C11_PureLossEvaluations ==
    /\ param_values_init = ParamValuesInit
    /\ \A e \in Evaluations :
          /\ procs[e].pc # "idle" =>
                procs[e].seen = <<param_values_init, time_steps, p_target>>
          /\ procs[e].pc = "done" => LossAlone(procs[e].H) = <<"done", procs[e].val>>
          /\ procs[e].pc = "raised" => LossAlone(procs[e].H) = <<"raised">>

\* C11 witness: two evaluations on different coefficient vectors, both
\* finished with different values, each having taken steps while the other
\* was part-way through its loop.
C11_Witness ==
    /\ procs[1].pc = "done" /\ procs[2].pc = "done"
    /\ procs[1].H # procs[2].H
    /\ procs[1].mixed /\ procs[2].mixed
    /\ procs[1].val # procs[2].val

\* C12 (as claimed): a call whose parameter vector is not as long as the
\* ansatz has parameters does not get past the call boundary: it has failed
\* with DimensionMismatch, before any pairing with the ansatz parameters.
C12_FailsFastOnMismatch ==
    Len(param_arg) # NumParams => (gpc = "raised" /\ gerr = "DimensionMismatch")

\* C13: the loss of a target and a trained distribution reordered by the
\* same index permutation equals the loss of the pair as given, for every
\* target, trained distribution and permutation (NaN and infinite values
\* included).
C13_PermutationInvariant ==
    permLoss # <<>> => permLoss[2] = loss_fn

\* C13 witness: a permutation that moves the first index, applied to a pair
\* whose target and trained entries differ there, with a finite nonzero loss.
C13_Witness ==
    /\ permLoss # <<>>
    /\ permLoss[1][1] # 1
    /\ p_target[permLoss[1][1]] # p_target[1]
    /\ p_qbm[permLoss[1][1]] # p_qbm[1]
    /\ IsFinite(loss_fn) /\ loss_fn # Zero
====
